---- MODULE Spec2Model ----
(***************************************************************************)
(* A model of the discovery scanner of mcp-serve.                          *)
(*                                                                         *)
(* Two DirectoryScanner implementations exist in the repository:           *)
(*   src/src/scanner.rs         (the library's mcp_serve::scanner)         *)
(*   src/src/tool_discovery.rs  (the binary's tool_discovery module)       *)
(* They differ in check_executable: only tool_discovery.rs falls back to   *)
(* the extension allow-list. Definitions without a prefix model            *)
(* scanner.rs, definitions prefixed td_ model tool_discovery.rs.           *)
(*                                                                         *)
(* The filesystem is the environment. One directory, "tools", has contents *)
(* chosen at Init; three other paths cannot be opened. The entries do not  *)
(* change while the scanner runs (the scanner is synchronous and the spec  *)
(* defines no concurrent writer). Under SpecContent the bytes of the files *)
(* are rewritten between calls.                                            *)
(*                                                                         *)
(* Specifications:                                                         *)
(*   Spec           one scanner, its three public methods in any order     *)
(*   SpecContent    Spec with files rewritten between calls                *)
(*   SpecExtension  Spec over directories of one entry, many extensions    *)
(*   SpecPair       two scanners over one directory                        *)
(*   SpecSteps      scan_directory of scanner.rs statement by statement    *)
(*   SpecMeta       the metadata model: from_yaml, to_mcp_tool, to_string  *)
(***************************************************************************)
EXTENDS Integers, Sequences, FiniteSets, TLC

VARIABLES
    fs,        \* the listing of directory "tools": a sequence of items
    scanners,  \* scanner id -> [impl, errors]   (DirectoryScanner.errors)
    ret,       \* the last call made and what it returned
    document,  \* the YAML text in hand
    definition,  \* the ToolDefinition in hand, if any
    frame        \* the scan_directory call in progress (SpecSteps)

vars == <<fs, scanners, ret, document, definition, frame>>

---------------------------------------------------------------------------
(* Bounds *)

\* longest directory listing
MaxEntries == 2
\* longest error log a scanner is allowed to grow to
MaxLog == 2
\* deepest nesting of a schema
MaxDepth == 1
\* most fields a YAML document lacks
MaxDamage == 2

---------------------------------------------------------------------------
(* File names: sequences of one-character strings *)

n_t      == <<"t">>
n_t_sh   == <<"t", ".", "s", "h">>
n_t_yaml == <<"t", ".", "y", "a", "m", "l">>
n_u_EXE  == <<"u", ".", "E", "X", "E">>

Names == {n_t, n_t_sh, n_t_yaml, n_u_EXE}

\* What an entry is, as the filesystem calls the scanner makes see it.
\*   xfile    regular file, execute permission granted
\*   file     regular file, no execute permission
\*   xdir     directory, search permission granted
\*   dir      directory, no search permission
\*   ddir     directory whose metadata cannot be read (stat fails)
\*   dangling symbolic link whose target is missing (stat: not found)
\*   denied   symbolic link whose target cannot be reached (stat: denied)
Modes == {"xfile", "file", "xdir", "dir", "ddir", "dangling", "denied"}

\* errors a directory iterator can yield for one entry
EntryErrnos == {"EIO", "ESTALE"}

\* What a file holds: nothing, a well-formed YAML document, or bytes that are
\* not YAML.
Contents == {"empty", "yaml", "garbage"}

OkItem(n, m) == [ok |-> TRUE, name |-> n, mode |-> m, errno |-> "none", content |-> "empty"]
ErrItem(k)   == [ok |-> FALSE, name |-> <<>>, mode |-> "none", errno |-> k, content |-> "empty"]

\* a regular file with something written to it
FileItem(n, m, c) == [OkItem(n, m) EXCEPT !.content = c]

Items == {OkItem(n, m) : n \in Names, m \in Modes} \cup {ErrItem(k) : k \in EntryErrnos}

\* no two entries of one directory share a name
DistinctNames(l) ==
    \A i, j \in DOMAIN l : (i # j /\ l[i].ok /\ l[j].ok) => l[i].name # l[j].name

\* every listing of at most MaxEntries items
BoundedListings ==
    {l \in UNION {[1..n -> Items] : n \in 0..MaxEntries} : DistinctNames(l)}

\* the directory of the spec's scenario: executable `script` with its sidecar
\* `script.yaml`, executable `tool2`, plain `notes.txt`, subdirectory `sub`
n_script      == <<"s", "c", "r", "i", "p", "t">>
n_script_yaml == <<"s", "c", "r", "i", "p", "t", ".", "y", "a", "m", "l">>
n_tool2       == <<"t", "o", "o", "l", "2">>
n_notes_txt   == <<"n", "o", "t", "e", "s", ".", "t", "x", "t">>
n_sub         == <<"s", "u", "b">>

ScenarioListing ==
    << FileItem(n_script, "xfile", "garbage"), FileItem(n_script_yaml, "file", "yaml"),
       FileItem(n_tool2, "xfile", "garbage"), FileItem(n_notes_txt, "file", "garbage"),
       OkItem(n_sub, "xdir") >>

\* two candidates of one stem beside the one `.yaml` file of that stem
SharedStemListing ==
    << OkItem(n_t, "xfile"), OkItem(n_t_sh, "xfile"), OkItem(n_t_yaml, "file") >>

Listings == BoundedListings \cup {ScenarioListing, SharedStemListing}

\* listings for two scanners side by side: candidates with and without the
\* execute bit, an allow-listed extension, a sidecar, a directory, a dangling
\* link, an unreadable entry
PairItems ==
    {OkItem(n, m) : n \in {n_t, n_t_sh, n_t_yaml}, m \in {"xfile", "file", "xdir", "dangling"}}
        \cup {ErrItem("EIO")}

PairListings ==
    {l \in UNION {[1..n -> PairItems] : n \in 0..MaxEntries} : DistinctNames(l)}

\* listings to walk entry by entry: a candidate, its sidecar, unreadable entries
StepItems ==
    {OkItem(n_t, m) : m \in {"xfile", "file", "xdir"}}
        \cup {OkItem(n_t_yaml, "file")}
        \cup {ErrItem(k) : k \in EntryErrnos}

StepListings ==
    {l \in UNION {[1..n -> StepItems] : n \in 0..MaxEntries} : DistinctNames(l)}

\* extensions in and outside the allow-list, in several spellings
Extensions ==
    {<<"e", "x", "e">>,
     <<"E", "X", "E">>,
     <<"E", "x", "e">>,
     <<"e", "X", "e">>,
     <<"b", "a", "t">>,
     <<"B", "a", "t">>,
     <<"B", "A", "T">>,
     <<"c", "m", "d">>,
     <<"C", "M", "D">>,
     <<"c", "M", "d">>,
     <<"p", "s", "1">>,
     <<"P", "S", "1">>,
     <<"P", "s", "1">>,
     <<"s", "h">>,
     <<"S", "H">>,
     <<"S", "h">>,
     <<"s", "H">>,
     <<"t", "x", "t">>,
     <<"T", "X", "T">>,
     <<"y", "a", "m", "l">>,
     <<"e", "x">>,
     <<"e", "x", "e", "s">>,
     <<"s">>,
     <<"b", "a", "s", "h">>,
     <<"m", "d">>,
     <<"p", "y">>,
     <<"s", "h", "1">>,
     <<>>}

\* `u` with each of the extensions, and the extensionless `t`
ExtensionNames == {<<"u", ".">> \o e : e \in Extensions} \cup {n_t}

\* directories of one entry
ExtensionListings == {<<OkItem(n, m)>> : n \in ExtensionNames, m \in Modes}

\* listings of a candidate and its sidecar, each with any content
ContentItems ==
    {FileItem(n, m, c) : n \in {n_t, n_t_yaml}, m \in {"xfile", "file"}, c \in Contents}
        \cup {ErrItem("EIO")}

ContentListings ==
    {l \in UNION {[1..n -> ContentItems] : n \in 0..MaxEntries} : DistinctNames(l)}

\* the paths a caller may hand to scan_directory
Paths == {"tools", "missing", "afile", "locked"}

join(directory, name) == [dir |-> directory, name |-> name]

---------------------------------------------------------------------------
(* std::path and std::fs, as far as the scanner uses them *)

\* index of the last "." of a name, 0 if there is none
LastDot(n) ==
    IF \E i \in DOMAIN n : n[i] = "."
    THEN CHOOSE i \in DOMAIN n : n[i] = "." /\ \A j \in DOMAIN n : n[j] = "." => j <= i
    ELSE 0

\* Path::file_stem: the name up to the last ".", the whole name when the
\* only "." is the first character or there is none
file_stem(n) == IF LastDot(n) <= 1 THEN n ELSE SubSeq(n, 1, LastDot(n) - 1)

\* Path::extension as [some, ext]
extension(n) ==
    IF LastDot(n) <= 1
    THEN [some |-> FALSE, ext |-> <<>>]
    ELSE [some |-> TRUE, ext |-> SubSeq(n, LastDot(n) + 1, Len(n))]

\* a with_extension that leaves a name alone once it has an extension
with_extension_once(path, ext) ==
    IF extension(path.name).some
    THEN path
    ELSE [dir |-> path.dir, name |-> path.name \o <<".">> \o ext]

\* Path::with_extension: the stem, a ".", the new extension
with_extension(path, ext) ==
    [dir |-> path.dir, name |-> file_stem(path.name) \o <<".">> \o ext]

yaml == <<"y", "a", "m", "l">>

UpperCase == <<"A", "B", "C", "D", "E", "F", "G", "H", "I", "J", "K", "L", "M", "N", "O", "P", "Q", "R", "S", "T", "U", "V", "W", "X", "Y", "Z">>
LowerCase == <<"a", "b", "c", "d", "e", "f", "g", "h", "i", "j", "k", "l", "m", "n", "o", "p", "q", "r", "s", "t", "u", "v", "w", "x", "y", "z">>

\* char::to_lowercase
lower(c) ==
    IF \E i \in DOMAIN UpperCase : UpperCase[i] = c
    THEN LowerCase[CHOOSE i \in DOMAIN UpperCase : UpperCase[i] = c]
    ELSE c

to_lowercase(s) == [i \in DOMAIN s |-> lower(s[i])]

\* fs::read_dir
read_dir(listing, directory) ==
    CASE directory = "tools"   -> [ok |-> TRUE,  entries |-> listing, errno |-> "none"]
      [] directory = "missing" -> [ok |-> FALSE, entries |-> <<>>, errno |-> "ENOENT"]
      [] directory = "afile"   -> [ok |-> FALSE, entries |-> <<>>, errno |-> "ENOTDIR"]
      [] directory = "locked"  -> [ok |-> FALSE, entries |-> <<>>, errno |-> "EACCES"]

\* the mode of the entry a path names, "absent" when there is none
ModeAt(listing, path) ==
    IF path.dir = "tools" /\ \E i \in DOMAIN listing : listing[i].ok /\ listing[i].name = path.name
    THEN LET i == CHOOSE i \in DOMAIN listing : listing[i].ok /\ listing[i].name = path.name
         IN  listing[i].mode
    ELSE "absent"

\* fs::metadata (stat, following links): "file", "dir" or an error
metadata(listing, path) ==
    LET m == ModeAt(listing, path) IN
    CASE m \in {"xfile", "file"}      -> [ok |-> TRUE,  type |-> "file"]
      [] m \in {"xdir", "dir"}        -> [ok |-> TRUE,  type |-> "dir"]
      [] m \in {"ddir", "denied"}     -> [ok |-> FALSE, type |-> "EACCES"]
      [] m \in {"dangling", "absent"} -> [ok |-> FALSE, type |-> "ENOENT"]

\* Path::is_dir: metadata succeeds and reports a directory
is_dir(listing, path) ==
    metadata(listing, path).ok /\ metadata(listing, path).type = "dir"

\* Path::exists: metadata succeeds
exists(listing, path) == metadata(listing, path).ok

\* faccess::PathExt::executable: access(path, X_OK) succeeds
executable(listing, path) == ModeAt(listing, path) \in {"xfile", "xdir"}

---------------------------------------------------------------------------
(* Values *)

IoError(e)            == [type |-> "IoError", errno |-> e, path |-> <<>>]
PermissionDenied(p)   == [type |-> "PermissionDenied", errno |-> "none", path |-> p]

Embedded(p) == [variant |-> "Embedded", path |-> p]
Sidecar(p)  == [variant |-> "Sidecar", path |-> p]

DiscoveredTool(p, m) == [executable_path |-> p, metadata_source |-> m]

Ok(tools) == [tag |-> "Ok", tools |-> tools]
Err(e)    == [tag |-> "Err", error |-> e]

None    == [some |-> FALSE]
Some(v) == [some |-> TRUE, value |-> v]

\* no scan_directory call in progress
Idle == [at |-> "idle", self |-> "none", directory |-> "none", i |-> 0,
         discovered_tools |-> <<>>]

---------------------------------------------------------------------------
(* src/src/scanner.rs: DirectoryScanner *)
(* An operator that takes &mut self takes the error log and returns it.    *)

new(impl) == [impl |-> impl, errors |-> <<>>]

\* a find_metadata_source that never looks for the sidecar
find_metadata_source_no_sidecar(log, listing, executable_path) ==
    [source |-> Embedded(executable_path), errors |-> log]

\* a find_metadata_source that never takes the executable for its own sidecar
find_metadata_source_not_itself(log, listing, executable_path) ==
    LET sidecar_path == with_extension(executable_path, yaml) IN
    IF exists(listing, sidecar_path) /\ sidecar_path # executable_path
    THEN [source |-> Sidecar(sidecar_path), errors |-> log]
    ELSE [source |-> Embedded(executable_path), errors |-> log]

\* a find_metadata_source that parses the sidecar before it trusts it
find_metadata_source_parsing(log, listing, executable_path) ==
    LET sidecar_path == with_extension(executable_path, yaml) IN
    IF /\ exists(listing, sidecar_path)
       /\ \E i \in DOMAIN listing :
              /\ listing[i].ok /\ listing[i].name = sidecar_path.name
              /\ listing[i].content = "yaml"
    THEN [source |-> Sidecar(sidecar_path), errors |-> log]
    ELSE [source |-> Embedded(executable_path), errors |-> log]

\* a find_metadata_source that takes the sidecar for granted
find_metadata_source_sidecar_unchecked(log, listing, executable_path) ==
    [source |-> Sidecar(with_extension(executable_path, yaml)), errors |-> log]

\* a find_metadata_source whose fallback names the sidecar path
find_metadata_source_embedded_at_sidecar(log, listing, executable_path) ==
    LET sidecar_path == with_extension(executable_path, yaml) IN
    IF exists(listing, sidecar_path)
    THEN [source |-> Sidecar(sidecar_path), errors |-> log]
    ELSE [source |-> Embedded(sidecar_path), errors |-> log]

find_metadata_source(log, listing, executable_path) ==
    LET sidecar_path == with_extension(executable_path, yaml) IN
    IF exists(listing, sidecar_path)
    THEN IF metadata(listing, sidecar_path).ok
         THEN [source |-> Sidecar(sidecar_path), errors |-> log]
         ELSE [source |-> Embedded(executable_path),
               errors |-> Append(log, PermissionDenied(sidecar_path))]
    ELSE [source |-> Embedded(executable_path), errors |-> log]

\* a check_executable without the `if !path.executable() { return None; }`
check_executable_unconditional(log, listing, path) ==
    LET m == find_metadata_source(log, listing, path)
    IN  [tool |-> Some(DiscoveredTool(path, m.source)), errors |-> m.errors]

check_executable(log, listing, path) ==
    IF ~executable(listing, path)
    THEN [tool |-> None, errors |-> log]
    ELSE LET m == find_metadata_source(log, listing, path)
         IN  [tool |-> Some(DiscoveredTool(path, m.source)), errors |-> m.errors]

\* the loop without the `if path.is_dir() { continue; }`
RECURSIVE scan_entries_no_dir_skip(_, _, _, _, _, _)
scan_entries_no_dir_skip(log, listing, directory, entries, i, discovered_tools) ==
    IF i > Len(entries)
    THEN [result |-> Ok(discovered_tools), errors |-> log]
    ELSE IF ~entries[i].ok
    THEN scan_entries_no_dir_skip(Append(log, IoError(entries[i].errno)), listing,
                                  directory, entries, i + 1, discovered_tools)
    ELSE LET c == check_executable(log, listing, join(directory, entries[i].name)) IN
         scan_entries_no_dir_skip(c.errors, listing, directory, entries, i + 1,
                                  IF c.tool.some
                                  THEN Append(discovered_tools, c.tool.value)
                                  ELSE discovered_tools)

\* the loop with `break` in place of `continue` on an unreadable entry
RECURSIVE scan_entries_stop_on_error(_, _, _, _, _, _)
scan_entries_stop_on_error(log, listing, directory, entries, i, discovered_tools) ==
    IF i > Len(entries)
    THEN [result |-> Ok(discovered_tools), errors |-> log]
    ELSE IF ~entries[i].ok
    THEN [result |-> Ok(discovered_tools),
          errors |-> Append(log, IoError(entries[i].errno))]
    ELSE LET path == join(directory, entries[i].name) IN
         IF is_dir(listing, path)
         THEN scan_entries_stop_on_error(log, listing, directory, entries, i + 1,
                                         discovered_tools)
         ELSE LET c == check_executable(log, listing, path) IN
              scan_entries_stop_on_error(c.errors, listing, directory, entries, i + 1,
                                         IF c.tool.some
                                         THEN Append(discovered_tools, c.tool.value)
                                         ELSE discovered_tools)

\* the loop with a sidecar given to the first tool that claims it only
RECURSIVE scan_entries_sidecar_claimed(_, _, _, _, _, _)
scan_entries_sidecar_claimed(log, listing, directory, entries, i, discovered_tools) ==
    IF i > Len(entries)
    THEN [result |-> Ok(discovered_tools), errors |-> log]
    ELSE IF ~entries[i].ok
    THEN scan_entries_sidecar_claimed(Append(log, IoError(entries[i].errno)), listing,
                                      directory, entries, i + 1, discovered_tools)
    ELSE LET path == join(directory, entries[i].name) IN
         IF is_dir(listing, path)
         THEN scan_entries_sidecar_claimed(log, listing, directory, entries, i + 1,
                                           discovered_tools)
         ELSE LET c == check_executable(log, listing, path)
                  claimed == c.tool.some /\ \E k \in DOMAIN discovered_tools :
                                 discovered_tools[k].metadata_source = c.tool.value.metadata_source
              IN  scan_entries_sidecar_claimed(c.errors, listing, directory, entries, i + 1,
                      IF ~c.tool.some THEN discovered_tools
                      ELSE IF claimed
                      THEN Append(discovered_tools, DiscoveredTool(path, Embedded(path)))
                      ELSE Append(discovered_tools, c.tool.value))

\* the loop with `insert(0, tool)` in place of `push(tool)`
RECURSIVE scan_entries_prepend(_, _, _, _, _, _)
scan_entries_prepend(log, listing, directory, entries, i, discovered_tools) ==
    IF i > Len(entries)
    THEN [result |-> Ok(discovered_tools), errors |-> log]
    ELSE IF ~entries[i].ok
    THEN scan_entries_prepend(Append(log, IoError(entries[i].errno)), listing, directory,
                              entries, i + 1, discovered_tools)
    ELSE LET path == join(directory, entries[i].name) IN
         IF is_dir(listing, path)
         THEN scan_entries_prepend(log, listing, directory, entries, i + 1, discovered_tools)
         ELSE LET c == check_executable(log, listing, path) IN
              scan_entries_prepend(c.errors, listing, directory, entries, i + 1,
                                   IF c.tool.some
                                   THEN <<c.tool.value>> \o discovered_tools
                                   ELSE discovered_tools)

\* the loop with `return Err(ScanError::IoError(e))` on an unreadable entry
RECURSIVE scan_entries_fail_on_error(_, _, _, _, _, _)
scan_entries_fail_on_error(log, listing, directory, entries, i, discovered_tools) ==
    IF i > Len(entries)
    THEN [result |-> Ok(discovered_tools), errors |-> log]
    ELSE IF ~entries[i].ok
    THEN [result |-> Err(IoError(entries[i].errno)), errors |-> log]
    ELSE LET path == join(directory, entries[i].name) IN
         IF is_dir(listing, path)
         THEN scan_entries_fail_on_error(log, listing, directory, entries, i + 1,
                                         discovered_tools)
         ELSE LET c == check_executable(log, listing, path) IN
              scan_entries_fail_on_error(c.errors, listing, directory, entries, i + 1,
                                         IF c.tool.some
                                         THEN Append(discovered_tools, c.tool.value)
                                         ELSE discovered_tools)

\* the body of `for entry in entries`, from entry i on
RECURSIVE scan_entries(_, _, _, _, _, _)
scan_entries(log, listing, directory, entries, i, discovered_tools) ==
    IF i > Len(entries)
    THEN [result |-> Ok(discovered_tools), errors |-> log]
    ELSE IF ~entries[i].ok
    THEN scan_entries(Append(log, IoError(entries[i].errno)), listing, directory,
                      entries, i + 1, discovered_tools)
    ELSE LET path == join(directory, entries[i].name) IN
         IF is_dir(listing, path)
         THEN scan_entries(log, listing, directory, entries, i + 1, discovered_tools)
         ELSE LET c == check_executable(log, listing, path) IN
              scan_entries(c.errors, listing, directory, entries, i + 1,
                           IF c.tool.some
                           THEN Append(discovered_tools, c.tool.value)
                           ELSE discovered_tools)

\* a scan_directory that reports a directory it cannot open as an empty one
scan_directory_open_error_swallowed(log, listing, directory) ==
    LET entries == read_dir(listing, directory) IN
    IF ~entries.ok
    THEN [result |-> Ok(<<>>), errors |-> Append(log, IoError(entries.errno))]
    ELSE scan_entries(log, listing, directory, entries.entries, 1, <<>>)

\* a scan_directory that starts every scan with `self.errors.clear()`
scan_directory_log_reset(log, listing, directory) ==
    LET entries == read_dir(listing, directory) IN
    IF ~entries.ok
    THEN [result |-> Err(IoError(entries.errno)), errors |-> <<>>]
    ELSE scan_entries(<<>>, listing, directory, entries.entries, 1, <<>>)

\* a scan_directory that finds nothing while errors wait in the log
scan_directory_log_sensitive(log, listing, directory) ==
    LET entries == read_dir(listing, directory) IN
    IF ~entries.ok
    THEN [result |-> Err(IoError(entries.errno)), errors |-> log]
    ELSE IF log # <<>>
    THEN [result |-> Ok(<<>>), errors |-> log]
    ELSE scan_entries(log, listing, directory, entries.entries, 1, <<>>)

\* a scan_directory that also logs the error it returns
scan_directory_fatal_logged(log, listing, directory) ==
    LET entries == read_dir(listing, directory) IN
    IF ~entries.ok
    THEN [result |-> Err(IoError(entries.errno)),
          errors |-> Append(log, IoError(entries.errno))]
    ELSE scan_entries(log, listing, directory, entries.entries, 1, <<>>)

scan_directory(log, listing, directory) ==
    LET entries == read_dir(listing, directory) IN
    IF ~entries.ok
    THEN [result |-> Err(IoError(entries.errno)), errors |-> log]
    ELSE scan_entries(log, listing, directory, entries.entries, 1, <<>>)

\* a take_errors that clones the log and leaves it in place
take_errors_log_kept(log) == [result |-> log, errors |-> log]

\* std::mem::take(&mut self.errors)
take_errors(log) == [result |-> log, errors |-> <<>>]

\* &self.errors
errors(log) == [result |-> log, errors |-> log]

---------------------------------------------------------------------------
(* src/src/tool_discovery.rs: DirectoryScanner *)

AllowList ==
    {<<"e", "x", "e">>, <<"b", "a", "t">>, <<"c", "m", "d">>, <<"p", "s", "1">>, <<"s", "h">>}

\* a fallback that takes any extension for an executable one
td_check_executable_by_any_extension(listing, path) ==
    LET e == extension(path.name) IN
    IF e.some
    THEN TRUE
    ELSE executable(listing, path)

\* a fallback that compares the extension as it is spelled
td_check_executable_by_extension_case_sensitive(listing, path) ==
    LET e == extension(path.name) IN
    IF e.some
    THEN e.ext \in AllowList
    ELSE executable(listing, path)

td_check_executable_by_extension(listing, path) ==
    LET e == extension(path.name) IN
    IF e.some
    THEN to_lowercase(e.ext) \in AllowList
    ELSE executable(listing, path)

\* a find_metadata_source that does not look for a sidecar
td_find_metadata_source_embedded_only(log, listing, executable_path) ==
    [source |-> Embedded(executable_path), errors |-> log]

td_find_metadata_source(log, listing, executable_path) ==
    LET sidecar_path == with_extension(executable_path, yaml) IN
    IF exists(listing, sidecar_path)
    THEN IF metadata(listing, sidecar_path).ok
         THEN [source |-> Sidecar(sidecar_path), errors |-> log]
         ELSE [source |-> Embedded(executable_path),
               errors |-> Append(log, PermissionDenied(sidecar_path))]
    ELSE [source |-> Embedded(executable_path), errors |-> log]

\* a check_executable that asks the extension whatever the execute bit says
td_check_executable_extension_first(log, listing, path) ==
    IF ~td_check_executable_by_extension(listing, path)
    THEN [tool |-> None, errors |-> log]
    ELSE LET m == td_find_metadata_source(log, listing, path)
         IN  [tool |-> Some(DiscoveredTool(path, m.source)), errors |-> m.errors]

td_check_executable(log, listing, path) ==
    LET is_executable ==
            IF executable(listing, path)
            THEN TRUE
            ELSE td_check_executable_by_extension(listing, path)
    IN  IF ~is_executable
        THEN [tool |-> None, errors |-> log]
        ELSE LET m == td_find_metadata_source(log, listing, path)
             IN  [tool |-> Some(DiscoveredTool(path, m.source)), errors |-> m.errors]

RECURSIVE td_scan_entries(_, _, _, _, _, _)
td_scan_entries(log, listing, directory, entries, i, discovered_tools) ==
    IF i > Len(entries)
    THEN [result |-> Ok(discovered_tools), errors |-> log]
    ELSE IF ~entries[i].ok
    THEN td_scan_entries(Append(log, IoError(entries[i].errno)), listing, directory,
                         entries, i + 1, discovered_tools)
    ELSE LET path == join(directory, entries[i].name) IN
         IF is_dir(listing, path)
         THEN td_scan_entries(log, listing, directory, entries, i + 1, discovered_tools)
         ELSE LET c == td_check_executable(log, listing, path) IN
              td_scan_entries(c.errors, listing, directory, entries, i + 1,
                              IF c.tool.some
                              THEN Append(discovered_tools, c.tool.value)
                              ELSE discovered_tools)

td_scan_directory(log, listing, directory) ==
    LET entries == read_dir(listing, directory) IN
    IF ~entries.ok
    THEN [result |-> Err(IoError(entries.errno)), errors |-> log]
    ELSE td_scan_entries(log, listing, directory, entries.entries, 1, <<>>)

td_take_errors(log) == [result |-> log, errors |-> <<>>]

td_errors(log) == [result |-> log, errors |-> log]

---------------------------------------------------------------------------
(* src/src/tool_discovery.rs: the metadata model                           *)
(* A YAML document is the tree its text stands for: a scalar, a null, a    *)
(* mapping from keys to trees, or text that is no YAML at all. Rust values *)
(* are records of their own; serialisation and parsing convert between the *)
(* two.                                                                    *)

EmptyMap == [k \in {} |-> k]

\* YAML documents
StrNode(s)  == [kind |-> "str", str |-> s, map |-> EmptyMap]
NullNode    == [kind |-> "null", str |-> "~", map |-> EmptyMap]
MapNode(m)  == [kind |-> "map", str |-> "", map |-> m]
InvalidText == [kind |-> "invalid", str |-> "", map |-> EmptyMap]

\* serde_json::Value
JNull      == [variant |-> "Null", str |-> "", map |-> EmptyMap]
JString(s) == [variant |-> "String", str |-> s, map |-> EmptyMap]
JObject(m) == [variant |-> "Object", str |-> "", map |-> m]

\* serde_yaml_ng::Value
YNull       == [variant |-> "Null", str |-> "", map |-> EmptyMap, yaml |-> TRUE]
YString(s)  == [variant |-> "String", str |-> s, map |-> EmptyMap, yaml |-> TRUE]
YMapping(m) == [variant |-> "Mapping", str |-> "", map |-> m, yaml |-> TRUE]

ToolInput(template, schema)  == [template |-> template, schema |-> schema]
ToolOutput(template, schema) == [template |-> template, schema |-> schema]

ToolDefinition(name, title, description, input, output, annotations) ==
    [name |-> name, title |-> title, description |-> description,
     input |-> input, output |-> output, annotations |-> annotations]

McpTool(name, title, description, input_schema, output_schema, annotations) ==
    [name |-> name, title |-> title, description |-> description,
     input_schema |-> input_schema, output_schema |-> output_schema,
     annotations |-> annotations]

OkValue(v)   == [tag |-> "Ok", value |-> v]
YamlError(m) == [type |-> "serde_yaml_ng::Error", errno |-> m, path |-> <<>>]

\* a to_mcp_tool that leaves the optional output schema out
to_mcp_tool_without_output_schema(self) ==
    McpTool(self.name, self.title, self.description, self.input.schema, None,
            self.annotations)

\* ToolDefinition::to_mcp_tool(&self)
to_mcp_tool(self) ==
    McpTool(self.name, self.title, self.description, self.input.schema,
            Some(self.output.schema), self.annotations)

(* Serialize *)

\* a string written plain, without the quotes that keep `~` a string
string_to_yaml_plain(v) == IF v = "~" THEN NullNode ELSE StrNode(v)

\* a String: a scalar, quoted where the plain text would read as something else
string_to_yaml(v) == StrNode(v)

RECURSIVE json_to_yaml(_)
json_to_yaml(v) ==
    CASE v.variant = "Null"   -> NullNode
      [] v.variant = "String" -> string_to_yaml(v.str)
      [] v.variant = "Object" -> MapNode([k \in DOMAIN v.map |-> json_to_yaml(v.map[k])])

RECURSIVE value_to_yaml(_)
value_to_yaml(v) ==
    CASE v.variant = "Null"    -> NullNode
      [] v.variant = "String"  -> string_to_yaml(v.str)
      [] v.variant = "Mapping" -> MapNode([k \in DOMAIN v.map |-> value_to_yaml(v.map[k])])

\* Option<String>, Option<serde_json::Value>: None is written as null
option_string_to_yaml(v) == IF v.some THEN string_to_yaml(v.value) ELSE NullNode
option_json_to_yaml(v)   == IF v.some THEN json_to_yaml(v.value) ELSE NullNode

\* Option<HashMap<String, serde_yaml_ng::Value>>
annotations_to_yaml(v) ==
    IF v.some
    THEN MapNode([k \in DOMAIN v.value |-> value_to_yaml(v.value[k])])
    ELSE NullNode

tool_input_to_yaml(v) ==
    MapNode([k \in {"template", "schema"} |->
                IF k = "template" THEN string_to_yaml(v.template) ELSE json_to_yaml(v.schema)])

\* serde_yaml_ng::to_string(&tool_definition)
tool_definition_to_string(v) ==
    MapNode([k \in {"name", "title", "description", "input", "output", "annotations"} |->
                CASE k = "name"        -> string_to_yaml(v.name)
                  [] k = "title"       -> option_string_to_yaml(v.title)
                  [] k = "description" -> string_to_yaml(v.description)
                  [] k = "input"       -> tool_input_to_yaml(v.input)
                  [] k = "output"      -> tool_input_to_yaml(v.output)
                  [] k = "annotations" -> annotations_to_yaml(v.annotations)])

\* a serialiser of McpTool that still writes the input template
mcp_tool_to_string_with_template(v) ==
    MapNode([k \in {"name", "title", "description", "input_schema", "output_schema",
                    "annotations", "template"} |->
                CASE k = "name"          -> string_to_yaml(v.name)
                  [] k = "title"         -> option_string_to_yaml(v.title)
                  [] k = "description"   -> string_to_yaml(v.description)
                  [] k = "input_schema"  -> json_to_yaml(v.input_schema)
                  [] k = "output_schema" -> option_json_to_yaml(v.output_schema)
                  [] k = "annotations"   -> annotations_to_yaml(v.annotations)
                  [] k = "template"      -> StrNode("--title {{title}}")])

\* serde_yaml_ng::to_string(&mcp_tool)
mcp_tool_to_string(v) ==
    MapNode([k \in {"name", "title", "description", "input_schema", "output_schema",
                    "annotations"} |->
                CASE k = "name"          -> string_to_yaml(v.name)
                  [] k = "title"         -> option_string_to_yaml(v.title)
                  [] k = "description"   -> string_to_yaml(v.description)
                  [] k = "input_schema"  -> json_to_yaml(v.input_schema)
                  [] k = "output_schema" -> option_json_to_yaml(v.output_schema)
                  [] k = "annotations"   -> annotations_to_yaml(v.annotations)])

(* Deserialize: every operator returns [ok, value] *)

Parsed(v)  == [ok |-> TRUE, value |-> v]
Unparsed   == [ok |-> FALSE, value |-> "invalid type"]

\* String: any scalar gives its text
yaml_to_string(n) ==
    IF n.kind \in {"str", "null"} THEN Parsed(n.str) ELSE Unparsed

\* Option<String>: a null is None
yaml_to_option_string(n) ==
    IF n.kind = "null" THEN Parsed(None)
    ELSE IF n.kind = "str" THEN Parsed(Some(n.str))
    ELSE Unparsed

\* serde_json::Value: any tree
RECURSIVE yaml_to_json(_)
yaml_to_json(n) ==
    CASE n.kind = "null" -> JNull
      [] n.kind = "str"  -> JString(n.str)
      [] n.kind = "map"  -> JObject([k \in DOMAIN n.map |-> yaml_to_json(n.map[k])])

\* serde_yaml_ng::Value: any tree
RECURSIVE yaml_to_value(_)
yaml_to_value(n) ==
    CASE n.kind = "null" -> YNull
      [] n.kind = "str"  -> YString(n.str)
      [] n.kind = "map"  -> YMapping([k \in DOMAIN n.map |-> yaml_to_value(n.map[k])])

\* Option<HashMap<String, serde_yaml_ng::Value>>
yaml_to_annotations(n) ==
    IF n.kind = "null" THEN Parsed(None)
    ELSE IF n.kind = "map"
    THEN Parsed(Some([k \in DOMAIN n.map |-> yaml_to_value(n.map[k])]))
    ELSE Unparsed

\* ToolInput, ToolOutput: a mapping with `template` and `schema`; other keys
\* are ignored
yaml_to_tool_input(n) ==
    IF n.kind # "map" THEN Unparsed
    ELSE IF {"template", "schema"} \ DOMAIN n.map # {}
    THEN [ok |-> FALSE, value |-> "missing field"]
    ELSE LET template == yaml_to_string(n.map["template"]) IN
         IF ~template.ok THEN Unparsed
         ELSE Parsed(ToolInput(template.value, yaml_to_json(n.map["schema"])))

\* a from_yaml whose missing strings default to ""
from_yaml_defaulting(text) ==
    IF text.kind # "map" THEN Err(YamlError("invalid type"))
    ELSE LET m == text.map
             str(k) == IF k \in DOMAIN m THEN yaml_to_string(m[k]) ELSE Parsed("")
             title == IF "title" \in DOMAIN m THEN yaml_to_option_string(m["title"])
                      ELSE Parsed(None)
             annotations == IF "annotations" \in DOMAIN m
                            THEN yaml_to_annotations(m["annotations"])
                            ELSE Parsed(None)
         IN  IF {"input", "output"} \ DOMAIN m # {}
             THEN Err(YamlError("missing field"))
             ELSE LET input  == yaml_to_tool_input(m["input"])
                      output == yaml_to_tool_input(m["output"])
                  IN  IF ~(str("name").ok /\ title.ok /\ str("description").ok /\ input.ok
                             /\ output.ok /\ annotations.ok)
                      THEN Err(YamlError("invalid"))
                      ELSE OkValue(ToolDefinition(str("name").value, title.value,
                                                  str("description").value, input.value,
                                                  output.value, annotations.value))

\* ToolDefinition::from_yaml(yaml): serde_yaml_ng::from_str with the derived
\* Deserialize: required fields must be present, Option fields default to None
from_yaml(text) ==
    IF text.kind = "invalid" THEN Err(YamlError("syntax"))
    ELSE IF text.kind # "map" THEN Err(YamlError("invalid type"))
    ELSE LET m == text.map
             title == IF "title" \in DOMAIN m THEN yaml_to_option_string(m["title"])
                      ELSE Parsed(None)
             annotations == IF "annotations" \in DOMAIN m
                            THEN yaml_to_annotations(m["annotations"])
                            ELSE Parsed(None)
         IN  IF {"name", "description", "input", "output"} \ DOMAIN m # {}
             THEN Err(YamlError("missing field"))
             ELSE LET name        == yaml_to_string(m["name"])
                      description == yaml_to_string(m["description"])
                      input       == yaml_to_tool_input(m["input"])
                      output      == yaml_to_tool_input(m["output"])
                  IN  IF ~(name.ok /\ title.ok /\ description.ok /\ input.ok /\ output.ok
                             /\ annotations.ok)
                      THEN Err(YamlError("invalid"))
                      ELSE OkValue(ToolDefinition(name.value, title.value,
                                                  description.value, input.value,
                                                  output.value, annotations.value))

---------------------------------------------------------------------------
(* The state machine: one scanner, of either implementation, and a caller  *)
(* that calls its three public methods in any order.                       *)

Impls == {"scanner", "tool_discovery"}

Call(op, s, directory, result) ==
    [op |-> op, self |-> s, directory |-> directory, result |-> result]

Init ==
    /\ fs \in Listings
    /\ \E impl \in Impls : scanners = [s \in {"s"} |-> new(impl)]
    /\ ret = Call("new", "s", "none", <<>>)
    /\ document = NullNode /\ definition = None
    /\ frame = Idle

\* a scan_directory whose error log is one log for all scanners
ScanDirectory_shared_log(s, directory) ==
    /\ scanners[s].impl = "scanner"
    /\ LET r == scan_directory(scanners[s].errors, fs, directory) IN
       /\ Len(r.errors) <= MaxLog
       /\ scanners' = [x \in DOMAIN scanners |-> [scanners[x] EXCEPT !.errors = r.errors]]
       /\ ret' = Call("scan_directory", s, directory, r.result)
    /\ UNCHANGED <<fs, document, definition, frame>>

ScanDirectory(s, directory) ==
    /\ scanners[s].impl = "scanner"
    /\ LET r == scan_directory(scanners[s].errors, fs, directory) IN
       /\ Len(r.errors) <= MaxLog
       /\ scanners' = [scanners EXCEPT ![s].errors = r.errors]
       /\ ret' = Call("scan_directory", s, directory, r.result)
    /\ UNCHANGED <<fs, document, definition, frame>>

TakeErrors(s) ==
    /\ scanners[s].impl = "scanner"
    /\ LET r == take_errors(scanners[s].errors) IN
       /\ scanners' = [scanners EXCEPT ![s].errors = r.errors]
       /\ ret' = Call("take_errors", s, "none", r.result)
    /\ UNCHANGED <<fs, document, definition, frame>>

Errors(s) ==
    /\ scanners[s].impl = "scanner"
    /\ LET r == errors(scanners[s].errors) IN
       /\ scanners' = [scanners EXCEPT ![s].errors = r.errors]
       /\ ret' = Call("errors", s, "none", r.result)
    /\ UNCHANGED <<fs, document, definition, frame>>

TdScanDirectory(s, directory) ==
    /\ scanners[s].impl = "tool_discovery"
    /\ LET r == td_scan_directory(scanners[s].errors, fs, directory) IN
       /\ Len(r.errors) <= MaxLog
       /\ scanners' = [scanners EXCEPT ![s].errors = r.errors]
       /\ ret' = Call("scan_directory", s, directory, r.result)
    /\ UNCHANGED <<fs, document, definition, frame>>

TdTakeErrors(s) ==
    /\ scanners[s].impl = "tool_discovery"
    /\ LET r == td_take_errors(scanners[s].errors) IN
       /\ scanners' = [scanners EXCEPT ![s].errors = r.errors]
       /\ ret' = Call("take_errors", s, "none", r.result)
    /\ UNCHANGED <<fs, document, definition, frame>>

TdErrors(s) ==
    /\ scanners[s].impl = "tool_discovery"
    /\ LET r == td_errors(scanners[s].errors) IN
       /\ scanners' = [scanners EXCEPT ![s].errors = r.errors]
       /\ ret' = Call("errors", s, "none", r.result)
    /\ UNCHANGED <<fs, document, definition, frame>>

Next ==
    \/ \E s \in DOMAIN scanners, d \in Paths : ScanDirectory(s, d)
    \/ \E s \in DOMAIN scanners : TakeErrors(s)
    \/ \E s \in DOMAIN scanners : Errors(s)
    \/ \E s \in DOMAIN scanners, d \in Paths : TdScanDirectory(s, d)
    \/ \E s \in DOMAIN scanners : TdTakeErrors(s)
    \/ \E s \in DOMAIN scanners : TdErrors(s)

Spec == Init /\ [][Next]_vars

\* scan_directory of scanner.rs statement by statement: the call, the
\* read_dir, one turn of the `for` loop per entry, the return.
InitSteps ==
    /\ fs \in StepListings
    /\ scanners = [s \in {"s"} |-> new("scanner")]
    /\ ret = Call("new", "s", "none", <<>>)
    /\ document = NullNode /\ definition = None /\ frame = Idle

\* scanner.scan_directory(directory) is entered
CallScanDirectory(s, directory) ==
    /\ frame.at = "idle"
    /\ Len(scanners[s].errors) <= MaxLog
    /\ frame' = [at |-> "read_dir", self |-> s, directory |-> directory, i |-> 0,
                 discovered_tools |-> <<>>]
    /\ UNCHANGED <<fs, scanners, ret, document, definition>>

\* let entries = match fs::read_dir(directory) { .. Err(e) => return Err(..) }
ReadDir ==
    /\ frame.at = "read_dir"
    /\ LET entries == read_dir(fs, frame.directory) IN
       IF ~entries.ok
       THEN /\ ret' = Call("scan_directory", frame.self, frame.directory,
                           Err(IoError(entries.errno)))
            /\ frame' = Idle
       ELSE /\ frame' = [frame EXCEPT !.at = "for", !.i = 1]
            /\ UNCHANGED ret
    /\ UNCHANGED <<fs, scanners, document, definition>>

\* a `for` loop that does not move past a directory
ForEntry_directory_again ==
    /\ frame.at = "for" /\ frame.i <= Len(fs)
    /\ IF fs[frame.i].ok /\ is_dir(fs, join(frame.directory, fs[frame.i].name))
       THEN UNCHANGED <<frame, scanners>>
       ELSE LET r == scan_entries(scanners[frame.self].errors, fs, frame.directory,
                                  <<fs[frame.i]>>, 1, frame.discovered_tools) IN
            /\ scanners' = [scanners EXCEPT ![frame.self].errors = r.errors]
            /\ frame' = [frame EXCEPT !.i = frame.i + 1,
                                      !.discovered_tools = r.result.tools]
    /\ UNCHANGED <<fs, ret, document, definition>>

\* one turn of `for entry in entries`
ForEntry ==
    /\ frame.at = "for" /\ frame.i <= Len(fs)
    /\ LET r == scan_entries(scanners[frame.self].errors, fs, frame.directory,
                             <<fs[frame.i]>>, 1, frame.discovered_tools) IN
       /\ scanners' = [scanners EXCEPT ![frame.self].errors = r.errors]
       /\ frame' = [frame EXCEPT !.i = frame.i + 1, !.discovered_tools = r.result.tools]
    /\ UNCHANGED <<fs, ret, document, definition>>

\* Ok(discovered_tools), the iterator exhausted
ReturnOk ==
    /\ frame.at = "for" /\ frame.i > Len(fs)
    /\ ret' = Call("scan_directory", frame.self, frame.directory,
                   Ok(frame.discovered_tools))
    /\ frame' = Idle
    /\ UNCHANGED <<fs, scanners, document, definition>>

\* the log is read or drained between scans (&mut self admits no call during one)
BetweenScans ==
    /\ frame.at = "idle"
    /\ \E s \in DOMAIN scanners : TakeErrors(s) \/ Errors(s)

NextSteps ==
    \/ \E s \in DOMAIN scanners, d \in Paths : CallScanDirectory(s, d)
    \/ ReadDir
    \/ ForEntry
    \/ ReturnOk
    \/ BetweenScans

\* a call that was entered runs on: the scanner is synchronous code
SpecSteps ==
    InitSteps /\ [][NextSteps]_vars /\ WF_vars(ReadDir) /\ WF_vars(ForEntry) /\ WF_vars(ReturnOk)

\* Two scanners, each of either implementation, over one directory.
InitPair ==
    /\ fs \in PairListings
    /\ \E impl \in [{"a", "b"} -> Impls] : scanners = [s \in {"a", "b"} |-> new(impl[s])]
    /\ ret = Call("new", "a", "none", <<>>)
    /\ document = NullNode /\ definition = None
    /\ frame = Idle

SpecPair == InitPair /\ [][Next]_vars

\* The scanners over directories of one entry, of any extension.
InitExtension ==
    /\ fs \in ExtensionListings
    /\ \E impl \in Impls : scanners = [s \in {"s"} |-> new(impl)]
    /\ ret = Call("new", "s", "none", <<>>)
    /\ document = NullNode /\ definition = None
    /\ frame = Idle

SpecExtension == InitExtension /\ [][Next]_vars

\* Between two calls the files of the directory are rewritten.
InitContent ==
    /\ fs \in ContentListings
    /\ \E impl \in Impls : scanners = [s \in {"s"} |-> new(impl)]
    /\ ret = Call("new", "s", "none", <<>>)
    /\ document = NullNode /\ definition = None
    /\ frame = Idle

WriteFile(i, c) ==
    /\ i \in DOMAIN fs
    /\ fs[i].ok /\ fs[i].mode \in {"xfile", "file"}
    /\ fs[i].content # c
    /\ fs' = [fs EXCEPT ![i].content = c]
    /\ UNCHANGED <<scanners, ret, document, definition, frame>>

NextContent ==
    \/ Next
    \/ \E i \in 1..MaxEntries, c \in Contents : WriteFile(i, c)

SpecContent == InitContent /\ [][NextContent]_vars

---------------------------------------------------------------------------
(* The metadata model at work: a caller parses YAML text, projects the     *)
(* definition it holds and serialises what it has.                         *)

SchemaKeys == {"type", "template"}

\* the schemas nested at most n deep
RECURSIVE Schemas(_)
Schemas(n) ==
    IF n = 0 THEN {JNull, JString("object")}
    ELSE LET S == Schemas(n - 1) IN
         S \cup {JObject(EmptyMap)} \cup {JObject([j \in {k} |-> v]) : k \in SchemaKeys, v \in S}

Titles == {None, Some("Create Ticket"), Some("~")}

AnnotationMaps == {None, Some(EmptyMap), Some([k \in {"template"} |-> YString("x")])}

ToolDefinitions ==
    {ToolDefinition("create_ticket", t, "Creates a ticket",
                    ToolInput("--title {{title}}", i), ToolOutput("Created: (?<url>.*)", o), a) :
         t \in Titles, i \in Schemas(MaxDepth), o \in Schemas(MaxDepth), a \in AnnotationMaps}

\* the document of the tests, every field present
FullDocument ==
    MapNode([k \in {"name", "title", "description", "input", "output", "annotations"} |->
        CASE k = "name"        -> StrNode("create_ticket")
          [] k = "title"       -> StrNode("Create Ticket")
          [] k = "description" -> StrNode("Creates a ticket")
          [] k = "input"       ->
                 MapNode([j \in {"template", "schema"} |->
                     IF j = "template" THEN StrNode("--title {{title}}")
                     ELSE MapNode([i \in {"type"} |-> StrNode("object")])])
          [] k = "output"      ->
                 MapNode([j \in {"template", "schema"} |->
                     IF j = "template" THEN StrNode("Created: (?<url>.*)")
                     ELSE MapNode([i \in {"type"} |-> StrNode("string")])])
          [] k = "annotations" -> MapNode([j \in {"category"} |-> StrNode("tickets")])])

Nested == {"input", "output"}

\* the fields of the document, by path
Fields ==
    {<<k>> : k \in DOMAIN FullDocument.map}
        \cup {<<k, j>> : k \in Nested, j \in {"template", "schema"}}

\* the fields that have a shape to be wrong about (a schema is any value)
Shaped == Fields \ {<<k, "schema">> : k \in Nested}

\* a value of the wrong shape for the field: a scalar for a mapping, a
\* mapping for a string
Misshapen(path) ==
    IF path \in {<<"input">>, <<"output">>, <<"annotations">>}
    THEN StrNode("oops")
    ELSE MapNode(EmptyMap)

\* FullDocument without the fields of drop and with those of bad misshapen
Damaged(drop, bad) ==
    LET sub(k) ==
            MapNode([j \in {j \in DOMAIN FullDocument.map[k].map : <<k, j>> \notin drop} |->
                        IF <<k, j>> \in bad THEN Misshapen(<<k, j>>)
                        ELSE FullDocument.map[k].map[j]])
    IN  MapNode([k \in {k \in DOMAIN FullDocument.map : <<k>> \notin drop} |->
                    IF <<k>> \in bad THEN Misshapen(<<k>>)
                    ELSE IF k \in Nested THEN sub(k)
                    ELSE FullDocument.map[k]])

Documents ==
    {InvalidText, NullNode, StrNode("create_ticket")}
        \cup {Damaged(drop, bad) :
                 drop \in {f \in SUBSET Fields : Cardinality(f) <= MaxDamage},
                 bad \in {f \in SUBSET Shaped : Cardinality(f) <= 1}}

InitMeta ==
    /\ fs = <<>>
    /\ scanners = [s \in {"s"} |-> new("tool_discovery")]
    /\ ret = Call("new", "s", "none", <<>>)
    /\ frame = Idle
    /\ \/ document \in Documents /\ definition = None
       \/ document = NullNode /\ definition \in {Some(d) : d \in ToolDefinitions}

\* ToolDefinition::from_yaml(&document)
FromYaml ==
    /\ ret' = Call("from_yaml", "none", "none", from_yaml(document))
    /\ UNCHANGED <<fs, scanners, document, definition, frame>>

\* let tool = <the Ok of from_yaml>.expect(..)
Expect ==
    /\ ret.op = "from_yaml" /\ ret.result.tag = "Ok"
    /\ definition' = Some(ret.result.value)
    /\ ret' = Call("expect", "none", "none", ret.result.value)
    /\ UNCHANGED <<fs, scanners, document, frame>>

\* definition.to_mcp_tool()
ToMcpTool ==
    /\ definition.some
    /\ ret' = Call("to_mcp_tool", "none", "none", to_mcp_tool(definition.value))
    /\ UNCHANGED <<fs, scanners, document, definition, frame>>

\* serde_yaml_ng::to_string(&definition)
SerializeDefinition ==
    /\ definition.some
    /\ document' = tool_definition_to_string(definition.value)
    /\ ret' = Call("to_string", "none", "none", OkValue(document'))
    /\ UNCHANGED <<fs, scanners, definition, frame>>

\* serde_yaml_ng::to_string(&mcp_tool), of the McpTool just projected
SerializeMcpTool ==
    /\ ret.op = "to_mcp_tool"
    /\ document' = mcp_tool_to_string(ret.result)
    /\ ret' = Call("mcp_tool_to_string", "none", "none", OkValue(document'))
    /\ UNCHANGED <<fs, scanners, definition, frame>>

NextMeta ==
    \/ FromYaml
    \/ Expect
    \/ ToMcpTool
    \/ SerializeDefinition
    \/ SerializeMcpTool

SpecMeta == InitMeta /\ [][NextMeta]_vars

---------------------------------------------------------------------------
(* Vocabulary of the properties. These definitions describe the directory  *)
(* and a call's outcome directly; none of them uses the scanner operators. *)

\* the last call was scan_directory
Scanned == ret.op = "scan_directory"

\* the last call was scan_directory and it returned Ok
ScannedOk == Scanned /\ ret.result.tag = "Ok"

\* the step just taken is a call of scan_directory that returned Ok
ScanOkStep == ret'.op = "scan_directory" /\ ret'.result.tag = "Ok"

ImplOf(s) == scanners[s].impl

\* the directories that can be opened and listed
Listable == {"tools"}

\* what the step appended to the log of the scanner it was called on
Appended ==
    SubSeq(scanners'[ret'.self].errors,
           Len(scanners[ret'.self].errors) + 1,
           Len(scanners'[ret'.self].errors))

\* the entry is a directory / its metadata can be read / it passes the
\* execute-bit check
DirModes        == {"xdir", "dir", "ddir"}
StatableModes   == {"xfile", "file", "xdir", "dir"}
ExecBitModes    == {"xfile", "xdir"}

\* the names whose extension is, ignoring case, one of exe bat cmd ps1 sh
AllowListedNames == {n_t_sh, n_u_EXE}

\* the entries of the listing that were read
ReadItems == {i \in DOMAIN fs : fs[i].ok}

\* the listing has an entry of that name whose mode is one of ms
HasEntry(name, ms) == \E i \in ReadItems : fs[i].name = name /\ fs[i].mode \in ms

\* the name with its extension stripped: everything before the last ".",
\* unless that "." opens the name
StrippedName(n) ==
    IF \E k \in 2..Len(n) : n[k] = "." /\ \A j \in (k + 1)..Len(n) : n[j] # "."
    THEN LET k == CHOOSE k \in 2..Len(n) :
                      n[k] = "." /\ \A j \in (k + 1)..Len(n) : n[j] # "."
         IN  [j \in 1..(k - 1) |-> n[j]]
    ELSE n

\* the path of the `.yaml` sibling of a path
Sibling(p) == [dir |-> p.dir, name |-> StrippedName(p.name) \o <<".", "y", "a", "m", "l">>]

\* the errors the unreadable entries of the listing stand for, in listing order
RECURSIVE ReadErrors(_)
ReadErrors(l) ==
    IF l = <<>> THEN <<>>
    ELSE (IF Head(l).ok THEN <<>> ELSE <<[type |-> "IoError", errno |-> Head(l).errno, path |-> <<>>]>>)
         \o ReadErrors(Tail(l))

---------------------------------------------------------------------------
(* C1 *)

\* C1: scan_directory on a directory that cannot be opened or listed (missing,
\* not a directory, permission denied) returns Err(ScanError::IoError) and
\* carries no tool list at all.
C1_FatalOpenFailure ==
    (Scanned /\ ret.directory \notin Listable) =>
        /\ ret.result.tag = "Err"
        /\ ret.result.error.type = "IoError"
        /\ "tools" \notin DOMAIN ret.result

C1_Witness ==
    /\ Scanned /\ ret.directory = "missing" /\ ImplOf(ret.self) = "scanner"
    /\ ret.result.tag = "Err"
    /\ fs # <<>>

---------------------------------------------------------------------------
(* C2 *)

\* C2: every tool of an Ok result has metadata_source Sidecar(sibling) when the
\* `.yaml` sibling of its executable_path exists and its metadata can be read,
\* and Embedded(executable_path) in every other case.
C2_MetadataResolution ==
    ScannedOk =>
        \A k \in DOMAIN ret.result.tools :
            LET t == ret.result.tools[k]
                sib == Sibling(t.executable_path)
            IN  /\ t.metadata_source.variant \in {"Sidecar", "Embedded"}
                /\ t.metadata_source =
                       IF HasEntry(sib.name, StatableModes)
                       THEN [variant |-> "Sidecar", path |-> sib]
                       ELSE [variant |-> "Embedded", path |-> t.executable_path]

C2_Witness ==
    /\ ScannedOk /\ ImplOf(ret.self) = "scanner"
    /\ Len(ret.result.tools) = 1
    /\ ret.result.tools[1].executable_path.name = n_t
    /\ ret.result.tools[1].metadata_source.variant = "Sidecar"
    /\ ret.result.tools[1].metadata_source.path.name = n_t_yaml

---------------------------------------------------------------------------
(* C3 *)

\* C3: when an accepted candidate's `.yaml` sibling exists but its metadata
\* cannot be read, the scan appends exactly one PermissionDenied whose path is
\* the sibling, classifies the candidate Embedded(executable_path) and keeps it
\* in the result.
C3_InaccessibleSidecarLogged ==
    [][ScanOkStep =>
          \A i \in ReadItems :
              LET p == [dir |-> ret'.directory, name |-> fs[i].name]
                  sib == Sibling(p)
              IN  (fs[i].mode = "xfile" /\ HasEntry(sib.name, {"denied"})) =>
                      /\ Cardinality({k \in DOMAIN Appended :
                             /\ Appended[k].type = "PermissionDenied"
                             /\ Appended[k].path = sib}) = 1
                      /\ \E k \in DOMAIN ret'.result.tools :
                             /\ ret'.result.tools[k].executable_path = p
                             /\ ret'.result.tools[k].metadata_source =
                                    [variant |-> "Embedded", path |-> p]
    ]_vars

---------------------------------------------------------------------------
(* C4 *)

\* C4: every executable_path of an Ok result exists on disk (Path::exists, as
\* the tests assert) and is not a directory.
C4_PathsExistNonDirectory ==
    ScannedOk =>
        \A k \in DOMAIN ret.result.tools :
            HasEntry(ret.result.tools[k].executable_path.name, {"xfile", "file"})

---------------------------------------------------------------------------
(* C5 *)

---------------------------------------------------------------------------
(* C6 *)

\* C6: an entry that is not a directory, fails the execute-bit check and has no
\* allow-listed extension is in no result, and the scan appends nothing to the
\* log beyond one error per unreadable entry.
C6_RejectedSilently ==
    [][ScanOkStep =>
          /\ \A i \in ReadItems :
                 (/\ fs[i].mode \notin DirModes
                  /\ fs[i].mode \notin ExecBitModes
                  /\ fs[i].name \notin AllowListedNames) =>
                     ~\E k \in DOMAIN ret'.result.tools :
                         ret'.result.tools[k].executable_path.name = fs[i].name
          /\ Len(Appended) = Len(ReadErrors(fs))
    ]_vars

C6_Witness ==
    /\ ScannedOk /\ ImplOf(ret.self) = "tool_discovery"
    /\ HasEntry(n_t_yaml, {"file"})
    /\ HasEntry(n_t_sh, {"file"})
    /\ Len(ret.result.tools) = 1
    /\ ret.result.tools[1].executable_path.name = n_t_sh
    /\ scanners[ret.self].errors = <<>>

---------------------------------------------------------------------------
(* C7 *)

\* C7: the library's scanner (scanner.rs) includes every non-directory entry
\* whose execute-bit check is negative but whose extension is allow-listed.
C7_LibraryExtensionFallback ==
    (ScannedOk /\ ImplOf(ret.self) = "scanner") =>
        \A i \in ReadItems :
            (/\ fs[i].mode \notin DirModes
             /\ fs[i].mode \notin ExecBitModes
             /\ fs[i].name \in AllowListedNames) =>
                \E k \in DOMAIN ret.result.tools :
                    ret.result.tools[k].executable_path.name = fs[i].name

---------------------------------------------------------------------------
(* C8 *)

\* C8: take_errors returns the whole log, in order, and leaves it empty, so a
\* take_errors that follows a take_errors returns the empty list; errors()
\* returns the log and leaves it as it was; scan_directory keeps what the log
\* held, so the log is what was appended since the last take_errors.
C8_TakeAndPeek ==
    [][/\ ret'.op = "take_errors" =>
              /\ ret'.result = scanners[ret'.self].errors
              /\ scanners'[ret'.self].errors = <<>>
              /\ (ret.op = "take_errors" /\ ret.self = ret'.self) => ret'.result = <<>>
       /\ ret'.op = "errors" =>
              /\ ret'.result = scanners[ret'.self].errors
              /\ scanners' = scanners
       /\ ret'.op = "scan_directory" =>
              /\ Len(scanners'[ret'.self].errors) >= Len(scanners[ret'.self].errors)
              /\ SubSeq(scanners'[ret'.self].errors, 1, Len(scanners[ret'.self].errors))
                     = scanners[ret'.self].errors
    ]_vars

C8_Witness ==
    /\ ret.op = "take_errors"
    /\ Len(ret.result) = 2
    /\ ret.result[1] # ret.result[2]
    /\ scanners[ret.self].errors = <<>>

---------------------------------------------------------------------------
(* C9 *)

\* C9: a new scanner's log is empty, and every scan_directory leaves the log as
\* it was followed by the errors of that scan (none when the directory cannot
\* be opened), so two scans in a row leave the first scan's errors followed by
\* the second's.
C9_LogAccumulates ==
    /\ \A s \in DOMAIN scanners : scanners[s].errors = <<>>
    /\ [][ret'.op = "scan_directory" =>
              scanners'[ret'.self].errors =
                  scanners[ret'.self].errors
                      \o (IF ret'.directory \in Listable THEN ReadErrors(fs) ELSE <<>>)
       ]_vars

C9_Witness ==
    /\ Scanned /\ ret.directory = "tools"
    /\ Len(ReadErrors(fs)) = 1
    /\ Len(scanners[ret.self].errors) = 2
    /\ scanners[ret.self].errors = ReadErrors(fs) \o ReadErrors(fs)

---------------------------------------------------------------------------
(* C10 *)

\* C10: an entry that cannot be read contributes no tool and exactly one
\* IoError to the log; the entries after it are still processed; and the call
\* returns Ok.
C10_EntryErrorSkipped ==
    [][(ret'.op = "scan_directory" /\ ret'.directory \in Listable) =>
          /\ ret'.result.tag = "Ok"
          /\ \A e \in EntryErrnos :
                 Cardinality({k \in DOMAIN Appended :
                     Appended[k].type = "IoError" /\ Appended[k].errno = e})
                   = Cardinality({i \in DOMAIN fs : ~fs[i].ok /\ fs[i].errno = e})
          /\ Len(ret'.result.tools) <= Cardinality(ReadItems)
          /\ \A i \in ReadItems :
                 fs[i].mode = "xfile" =>
                     \E k \in DOMAIN ret'.result.tools :
                         ret'.result.tools[k].executable_path.name = fs[i].name
    ]_vars

C10_Witness ==
    /\ ScannedOk
    /\ Len(fs) = 2 /\ ~fs[1].ok /\ fs[2].ok /\ fs[2].mode = "xfile"
    /\ Len(ret.result.tools) = 1
    /\ ret.result.tools[1].executable_path.name = fs[2].name
    /\ scanners[ret.self].errors = <<[type |-> "IoError", errno |-> fs[1].errno, path |-> <<>>]>>

---------------------------------------------------------------------------
(* C11 *)

\* the place in the listing of the entry of that name
IndexOf(name) == CHOOSE i \in ReadItems : fs[i].name = name

\* C11: the tools of an Ok result stand in the order in which the listing
\* yielded their entries: the result is an order-preserving subsequence of the
\* listing.
C11_ListingOrder ==
    ScannedOk =>
        /\ \A k \in DOMAIN ret.result.tools :
               \E i \in ReadItems : fs[i].name = ret.result.tools[k].executable_path.name
        /\ \A k, l \in DOMAIN ret.result.tools :
               k < l => IndexOf(ret.result.tools[k].executable_path.name)
                          < IndexOf(ret.result.tools[l].executable_path.name)

\* two tools, listed and returned against the alphabet
C11_Witness ==
    /\ ScannedOk /\ ImplOf(ret.self) = "scanner"
    /\ Len(fs) = 2 /\ fs[1].ok /\ fs[1].name = n_t_sh /\ fs[2].ok /\ fs[2].name = n_t
    /\ Len(ret.result.tools) = 2
    /\ ret.result.tools[1].executable_path.name = n_t_sh
    /\ ret.result.tools[2].executable_path.name = n_t

---------------------------------------------------------------------------
(* C12 *)

\* the entries the scanner of that implementation classifies as executable:
\* the execute-bit check passes, or (tool_discovery.rs only) the entry is not
\* seen as a directory and its extension is allow-listed
Accepted(impl) ==
    {i \in ReadItems :
        \/ fs[i].mode = "xfile"
        \/ /\ impl = "tool_discovery"
           /\ fs[i].mode \notin {"xdir", "dir"}
           /\ fs[i].name \in AllowListedNames}

\* C12: an Ok result holds exactly one tool for each entry classified as
\* executable and none for any other entry: as many tools as accepted entries,
\* and no executable_path twice.
C12_OneToolPerCandidate ==
    ScannedOk =>
        /\ Len(ret.result.tools) = Cardinality(Accepted(ImplOf(ret.self)))
        /\ \A i \in ReadItems :
               Cardinality({k \in DOMAIN ret.result.tools :
                   ret.result.tools[k].executable_path = [dir |-> ret.directory, name |-> fs[i].name]})
                 = IF i \in Accepted(ImplOf(ret.self)) THEN 1 ELSE 0
        /\ \A k, l \in DOMAIN ret.result.tools :
               k # l => ret.result.tools[k].executable_path # ret.result.tools[l].executable_path

C12_Witness ==
    /\ ScannedOk /\ ImplOf(ret.self) = "scanner"
    /\ Len(fs) = 2 /\ fs[1].ok /\ fs[2].ok
    /\ fs[1].mode = "xfile" /\ fs[2].mode = "file"
    /\ Len(ret.result.tools) = 1

---------------------------------------------------------------------------
(* C13 *)

\* C13: scan_directory returns Err exactly when the directory cannot be opened,
\* however many entries are unreadable or sidecars inaccessible; a failure to
\* open is returned as Err and leaves no entry in the log.
C13_ErrIffOpenFails ==
    [][ret'.op = "scan_directory" =>
          /\ (ret'.result.tag = "Err") <=> (ret'.directory \notin Listable)
          /\ ret'.result.tag \in {"Ok", "Err"}
          /\ ret'.directory \notin Listable => Appended = <<>>
    ]_vars

\* a listing of nothing but unreadable entries still scans Ok
C13_Witness ==
    /\ ScannedOk
    /\ Len(fs) = 2 /\ ~fs[1].ok /\ ~fs[2].ok
    /\ Len(scanners[ret.self].errors) = 2

---------------------------------------------------------------------------
(* C19 *)

\* C19: scanning the scenario directory (executable script with script.yaml
\* beside it, executable tool2, plain notes.txt, subdirectory sub) returns
\* exactly script -> Sidecar(script.yaml) and tool2 -> Embedded(tool2), and
\* the log gains nothing.
C19_Scenario ==
    [][(ret'.op = "scan_directory" /\ ret'.directory = "tools" /\ fs = ScenarioListing) =>
          /\ ret'.result.tag = "Ok"
          /\ Len(ret'.result.tools) = 2
          /\ {ret'.result.tools[k] : k \in DOMAIN ret'.result.tools} =
                 { [executable_path |-> [dir |-> "tools", name |-> n_script],
                    metadata_source |-> [variant |-> "Sidecar",
                                         path |-> [dir |-> "tools", name |-> n_script_yaml]]],
                   [executable_path |-> [dir |-> "tools", name |-> n_tool2],
                    metadata_source |-> [variant |-> "Embedded",
                                         path |-> [dir |-> "tools", name |-> n_tool2]]] }
          /\ Appended = <<>>
    ]_vars

C19_Witness ==
    /\ ScannedOk /\ ret.directory = "tools" /\ fs = ScenarioListing
    /\ ImplOf(ret.self) = "scanner"
    /\ Len(ret.result.tools) = 2

---------------------------------------------------------------------------
(* C20 *)

\* C20: a tool whose metadata_source is Embedded(p) has p = executable_path.
C20_EmbeddedIsExecutable ==
    ScannedOk =>
        \A k \in DOMAIN ret.result.tools :
            ret.result.tools[k].metadata_source.variant = "Embedded" =>
                ret.result.tools[k].metadata_source.path = ret.result.tools[k].executable_path

C20_Witness ==
    /\ ScannedOk /\ ImplOf(ret.self) = "scanner"
    /\ Len(ret.result.tools) = 1
    /\ ret.result.tools[1].executable_path.name = n_t_sh
    /\ ret.result.tools[1].metadata_source.variant = "Embedded"

---------------------------------------------------------------------------
(* C14 *)

\* C14: the outcome of scan_directory does not depend on what any file holds:
\* a scan of the directory after its files were rewritten (a sidecar that is
\* not well-formed YAML included) returns what the scan before returned, and
\* appends the errors of the unreadable entries and nothing else.
C14_ContentIrrelevant ==
    [][(ret'.op = "scan_directory") =>
          /\ (ret.op = "scan_directory" /\ ret.directory = ret'.directory
                  /\ ret.self = ret'.self)
                 => ret'.result = ret.result
          /\ fs' = fs =>
                 Appended = IF ret'.result.tag = "Ok" THEN ReadErrors(fs) ELSE <<>>
    ]_vars

\* a candidate found with its sidecar while the sidecar holds garbage
C14_Witness ==
    /\ ScannedOk /\ ImplOf(ret.self) = "scanner"
    /\ \E i, j \in ReadItems :
           /\ fs[i].name = n_t /\ fs[i].mode = "xfile"
           /\ fs[j].name = n_t_yaml /\ fs[j].content = "garbage"
    /\ Len(ret.result.tools) = 1
    /\ ret.result.tools[1].metadata_source.variant = "Sidecar"

---------------------------------------------------------------------------
(* Vocabulary of the metadata properties: what a document or a value holds, *)
(* read off the tree itself.                                                *)

McpToolFields == {"name", "title", "description", "input_schema", "output_schema",
                  "annotations"}

\* the YAML tree has a mapping key of that name, at any depth
RECURSIVE MentionsKey(_, _)
MentionsKey(n, key) ==
    /\ n.kind = "map"
    /\ \/ key \in DOMAIN n.map
       \/ \E k \in DOMAIN n.map : MentionsKey(n.map[k], key)

\* the schema or annotation value has a key of that name, at any depth
RECURSIVE ValueMentionsKey(_, _)
ValueMentionsKey(v, key) ==
    /\ v.variant \in {"Object", "Mapping"}
    /\ \/ key \in DOMAIN v.map
       \/ \E k \in DOMAIN v.map : ValueMentionsKey(v.map[k], key)

\* the definition carries a key of that name inside a schema or an annotation
CarriesKey(d, key) ==
    \/ ValueMentionsKey(d.input.schema, key)
    \/ ValueMentionsKey(d.output.schema, key)
    \/ /\ d.annotations.some
       /\ \/ key \in DOMAIN d.annotations.value
          \/ \E k \in DOMAIN d.annotations.value :
                 ValueMentionsKey(d.annotations.value[k], key)

\* the document has the top-level field k / the field j inside field k
Has(k)       == document.kind = "map" /\ k \in DOMAIN document.map
HasIn(k, j)  == Has(k) /\ document.map[k].kind = "map" /\ j \in DOMAIN document.map[k].map

\* a required field is missing
SomethingMissing ==
    \/ \E k \in {"name", "description", "input", "output"} : ~Has(k)
    \/ \E k \in {"input", "output"}, j \in {"template", "schema"} : ~HasIn(k, j)

\* a required field is there and has the wrong shape: a mapping for a string,
\* a scalar for a mapping
SomethingMisshapen ==
    \/ \E k \in {"name", "description"} : Has(k) /\ document.map[k].kind = "map"
    \/ \E k \in {"input", "output"} : Has(k) /\ document.map[k].kind = "str"
    \/ \E k \in {"input", "output"} :
           HasIn(k, "template") /\ document.map[k].map["template"].kind = "map"

---------------------------------------------------------------------------
(* C15 *)

\* C15: to_mcp_tool is a total projection: the McpTool has the name, title,
\* description and annotations of d, input_schema = d.input.schema and
\* output_schema = Some(d.output.schema); it has no other field (both
\* templates are dropped) and d is left as it was.
C15_Projection ==
    [][ret'.op = "to_mcp_tool" =>
          /\ definition.some /\ definition' = definition
          /\ DOMAIN ret'.result = McpToolFields
          /\ ret'.result.name = definition.value.name
          /\ ret'.result.title = definition.value.title
          /\ ret'.result.description = definition.value.description
          /\ ret'.result.annotations = definition.value.annotations
          /\ ret'.result.input_schema = definition.value.input.schema
          /\ ret'.result.output_schema.some
          /\ ret'.result.output_schema.value = definition.value.output.schema
    ]_vars

\* a definition without title, with two different schemas, projected
C15_Witness ==
    /\ ret.op = "to_mcp_tool" /\ definition.some
    /\ ~definition.value.title.some /\ ~ret.result.title.some
    /\ definition.value.input.schema # definition.value.output.schema
    /\ ret.result.output_schema.some
    /\ ret.result.output_schema.value = definition.value.output.schema

---------------------------------------------------------------------------
(* C16 *)

\* C16 as stated: the serialised McpTool has no `template` key anywhere, not
\* even when a schema of the definition has a key of that name.
C16_NoTemplateAnywhere ==
    ret.op = "mcp_tool_to_string" => ~MentionsKey(document, "template")

\* C16, amended: the serialised McpTool is a mapping of exactly name, title,
\* description, input_schema, output_schema and annotations, so it has no
\* `template` field of its own; a `template` key occurs in it exactly when
\* a schema or an annotation of the definition carries one.
C16_NoTemplateOfItsOwn ==
    ret.op = "mcp_tool_to_string" =>
        /\ document.kind = "map"
        /\ DOMAIN document.map = McpToolFields
        /\ MentionsKey(document, "template") <=> CarriesKey(definition.value, "template")

\* the input schema has a `template` key and the serialised tool shows it
C16_Witness ==
    /\ ret.op = "mcp_tool_to_string" /\ definition.some
    /\ definition.value.input.schema.variant = "Object"
    /\ "template" \in DOMAIN definition.value.input.schema.map
    /\ ~ValueMentionsKey(definition.value.output.schema, "template")
    /\ ~definition.value.annotations.some
    /\ "template" \notin DOMAIN document.map
    /\ "template" \in DOMAIN document.map["input_schema"].map

---------------------------------------------------------------------------
(* C17 *)

\* C17: from_yaml returns an error when the text is not YAML, when one of
\* name, description, input, output, input.template, input.schema,
\* output.template, output.schema is missing or when one of them has the
\* wrong shape; with only title and annotations absent it succeeds, with
\* title = None and annotations = None.
C17_RequiredFields ==
    ret.op = "from_yaml" =>
        /\ (document.kind # "map" \/ SomethingMissing \/ SomethingMisshapen)
               => ret.result.tag = "Err"
        /\ (document.kind = "map" /\ ~SomethingMissing /\ ~SomethingMisshapen
                /\ ~Has("title") /\ ~Has("annotations"))
               => /\ ret.result.tag = "Ok"
                  /\ ret.result.value.title = [some |-> FALSE]
                  /\ ret.result.value.annotations = [some |-> FALSE]

\* a document that lacks nothing but output.schema is refused
C17_Witness ==
    /\ ret.op = "from_yaml" /\ ret.result.tag = "Err"
    /\ \A k \in {"name", "title", "description", "input", "output", "annotations"} : Has(k)
    /\ HasIn("input", "template") /\ HasIn("input", "schema")
    /\ HasIn("output", "template") /\ ~HasIn("output", "schema")
    /\ ~SomethingMisshapen

---------------------------------------------------------------------------
(* C18 *)

---------------------------------------------------------------------------
(* C21 *)

DotYaml == <<".", "y", "a", "m", "l">>

\* C21: a Sidecar(p) of a returned tool lies in the directory of the tool's
\* executable_path, is named by the executable's name with its extension (if
\* any) replaced by `.yaml`, and names an entry that exists.
C21_SidecarShape ==
    ScannedOk =>
        \A k \in DOMAIN ret.result.tools :
            LET t == ret.result.tools[k]
                p == t.metadata_source.path
            IN  t.metadata_source.variant = "Sidecar" =>
                    /\ p.dir = t.executable_path.dir
                    /\ Len(p.name) > Len(DotYaml)
                    /\ SubSeq(p.name, Len(p.name) - 4, Len(p.name)) = DotYaml
                    /\ SubSeq(p.name, 1, Len(p.name) - 5) = StrippedName(t.executable_path.name)
                    /\ HasEntry(p.name, StatableModes)

\* t.sh found with t.yaml for its sidecar
C21_Witness ==
    /\ ScannedOk /\ ImplOf(ret.self) = "scanner"
    /\ Len(ret.result.tools) = 1
    /\ ret.result.tools[1].executable_path.name = n_t_sh
    /\ ret.result.tools[1].metadata_source.variant = "Sidecar"
    /\ ret.result.tools[1].metadata_source.path.name = n_t_yaml

---------------------------------------------------------------------------
(* C26 *)

\* C26: a scan_directory that returns Err leaves every error log as it was:
\* the fatal error goes to the caller and not into the log.
C26_FatalNotLogged ==
    [][(ret'.op = "scan_directory" /\ ret'.result.tag = "Err") => scanners' = scanners]_vars

\* a failed scan by a scanner that has errors logged from before
C26_Witness ==
    /\ Scanned /\ ret.result.tag = "Err"
    /\ Len(scanners[ret.self].errors) = 1
    /\ ImplOf(ret.self) = "scanner"

---------------------------------------------------------------------------
(* C28 *)

\* C28: a returned tool whose own name ends in `.yaml` has metadata_source
\* Sidecar(executable_path): it is reported as its own sidecar, never Embedded.
C28_OwnSidecar ==
    ScannedOk =>
        \A k \in DOMAIN ret.result.tools :
            LET t == ret.result.tools[k] IN
            (/\ Len(t.executable_path.name) > Len(DotYaml)
             /\ SubSeq(t.executable_path.name, Len(t.executable_path.name) - 4,
                       Len(t.executable_path.name)) = DotYaml)
                => t.metadata_source = [variant |-> "Sidecar", path |-> t.executable_path]

\* an executable t.yaml, alone, found
C28_Witness ==
    /\ ScannedOk /\ ImplOf(ret.self) = "scanner"
    /\ Len(fs) = 1
    /\ Len(ret.result.tools) = 1
    /\ ret.result.tools[1].executable_path.name = n_t_yaml
    /\ ret.result.tools[1].metadata_source.variant = "Sidecar"

---------------------------------------------------------------------------
(* C29 *)

\* C29: two tools of one result whose names share a stem, with the `.yaml`
\* file of that stem existing, both carry Sidecar of that one path.
C29_SharedSidecar ==
    ScannedOk =>
        \A k, l \in DOMAIN ret.result.tools :
            LET a == ret.result.tools[k]
                b == ret.result.tools[l]
            IN  (/\ k # l
                 /\ StrippedName(a.executable_path.name) = StrippedName(b.executable_path.name)
                 /\ HasEntry(StrippedName(a.executable_path.name) \o DotYaml, StatableModes))
                    => /\ a.metadata_source.variant = "Sidecar"
                       /\ b.metadata_source.variant = "Sidecar"
                       /\ a.metadata_source.path = b.metadata_source.path

\* t and t.sh both found beside t.yaml
C29_Witness ==
    /\ ScannedOk /\ fs = SharedStemListing
    /\ Len(ret.result.tools) = 2
    /\ ret.result.tools[1].executable_path.name = n_t
    /\ ret.result.tools[2].executable_path.name = n_t_sh
    /\ ret.result.tools[1].metadata_source.path.name = n_t_yaml
    /\ ret.result.tools[2].metadata_source.path.name = n_t_yaml

---------------------------------------------------------------------------
(* C24 *)

\* the capital of a letter of the allow-list
Capital(c) ==
    CASE c = "e" -> "E" [] c = "x" -> "X" [] c = "b" -> "B" [] c = "a" -> "A"
      [] c = "t" -> "T" [] c = "c" -> "C" [] c = "m" -> "M" [] c = "d" -> "D"
      [] c = "p" -> "P" [] c = "s" -> "S" [] c = "h" -> "H" [] OTHER -> c

ListedWords == {<<"e", "x", "e">>, <<"b", "a", "t">>, <<"c", "m", "d">>,
                <<"p", "s", "1">>, <<"s", "h">>}

\* the name has no extension: no "." after its first character
Extensionless(n) == StrippedName(n) = n

\* what follows the last "." of a name that has an extension
ExtensionText(n) == SubSeq(n, Len(StrippedName(n)) + 2, Len(n))

\* the name's extension is one of exe bat cmd ps1 sh in some spelling
HasListedExtension(n) ==
    /\ ~Extensionless(n)
    /\ \E w \in ListedWords :
           /\ Len(ExtensionText(n)) = Len(w)
           /\ \A i \in DOMAIN w : ExtensionText(n)[i] \in {w[i], Capital(w[i])}

\* the result holds a tool of that name
Returned(n) ==
    \E k \in DOMAIN ret.result.tools : ret.result.tools[k].executable_path.name = n

\* C24: the tool_discovery scanner accepts an entry it does not see as a
\* directory exactly when the execute-bit check passes or the extension is one
\* of exe, bat, cmd, ps1, sh; an extensionless entry exactly when the
\* execute-bit check passes.
C24_AcceptedIff ==
    (ScannedOk /\ ImplOf(ret.self) = "tool_discovery") =>
        \A i \in ReadItems :
            fs[i].mode \notin {"xdir", "dir"} =>
                /\ Returned(fs[i].name)
                       <=> (fs[i].mode \in ExecBitModes \/ HasListedExtension(fs[i].name))
                /\ Extensionless(fs[i].name)
                       => (Returned(fs[i].name) <=> fs[i].mode \in ExecBitModes)

\* an executable file of an extension outside the list, accepted
C24_Witness ==
    /\ ScannedOk /\ ImplOf(ret.self) = "tool_discovery"
    /\ fs[1].name = <<"u", ".", "t", "x", "t">> /\ fs[1].mode = "xfile"
    /\ Len(ret.result.tools) = 1

---------------------------------------------------------------------------
(* C30 *)

\* C30: the tool_discovery scanner accepts a file without the execute bit
\* exactly when its extension is exe, bat, cmd, ps1 or sh in any mix of upper
\* and lower case.
C30_CaseInsensitive ==
    (ScannedOk /\ ImplOf(ret.self) = "tool_discovery") =>
        \A i \in ReadItems :
            fs[i].mode = "file" =>
                IF HasListedExtension(fs[i].name)
                THEN Returned(fs[i].name)
                ELSE ~Returned(fs[i].name)

\* `u.Bat` without the execute bit, accepted
C30_Witness ==
    /\ ScannedOk /\ ImplOf(ret.self) = "tool_discovery"
    /\ fs[1].name = <<"u", ".", "B", "a", "t">> /\ fs[1].mode = "file"
    /\ Len(ret.result.tools) = 1
    /\ ret.result.tools[1].executable_path.name = fs[1].name

---------------------------------------------------------------------------
(* C23 *)

\* C23: a call on one scanner leaves the log of every other scanner as it
\* was, and a scanner's log changes only by its own scan_directory appending
\* the errors of that scan or by its own take_errors emptying it.
C23_NoSharedState ==
    [][\A s \in DOMAIN scanners :
          /\ s # ret'.self => scanners'[s] = scanners[s]
          /\ scanners'[s].errors # scanners[s].errors =>
                 /\ ret'.self = s
                 /\ \/ /\ ret'.op = "scan_directory"
                       /\ scanners'[s].errors = scanners[s].errors \o ReadErrors(fs)
                    \/ /\ ret'.op = "take_errors"
                       /\ scanners'[s].errors = <<>>
    ]_vars

\* both scanners hit the unreadable entry; a drained its log, b still has its
C23_Witness ==
    /\ DOMAIN scanners = {"a", "b"}
    /\ ImplOf("a") = "scanner" /\ ImplOf("b") = "scanner"
    /\ ret.op = "take_errors" /\ ret.self = "a" /\ Len(ret.result) = 1
    /\ scanners["a"].errors = <<>>
    /\ Len(scanners["b"].errors) = 1

---------------------------------------------------------------------------
(* C25 *)

\* C25: what scan_directory returns and appends is decided by the directory
\* alone: a scan returns what the scan before it returned for the same
\* directory, whichever scanner (of the same implementation) made either call
\* and whatever their logs held, and it appends the errors of the unreadable
\* entries.
C25_HistoryIrrelevant ==
    [][ret'.op = "scan_directory" =>
          /\ (/\ ret.op = "scan_directory"
              /\ ret.directory = ret'.directory
              /\ ImplOf(ret.self) = ImplOf(ret'.self))
                 => ret'.result = ret.result
          /\ ret'.result.tag = "Ok" => Appended = ReadErrors(fs)
          /\ ret'.result.tag = "Err" => Appended = <<>>
    ]_vars

\* b finds a tool while the two logs differ
C25_Witness ==
    /\ DOMAIN scanners = {"a", "b"}
    /\ ImplOf("a") = "scanner" /\ ImplOf("b") = "scanner"
    /\ ScannedOk /\ ret.self = "b"
    /\ Len(ret.result.tools) = 1
    /\ Len(scanners["a"].errors) = 2
    /\ Len(scanners["b"].errors) = 1

---------------------------------------------------------------------------
(* C27 *)

\* the tool's entry passes the execute-bit check
PassesBit(t) == HasEntry(t.executable_path.name, ExecBitModes)

\* no entry that is neither executable nor a directory has a listed extension
NoFallbackCase ==
    \A i \in ReadItems :
        fs[i].mode \in {"xfile", "xdir", "dir"} \/ ~HasListedExtension(fs[i].name)

---------------------------------------------------------------------------
(* C22 *)

\* the call in progress returns with this step
Returns == frame.at # "idle" /\ frame'.at = "idle"

\* C22: every scan_directory that is entered returns; it returns Err only from
\* the read_dir, with no entry visited and no log touched, and otherwise Ok
\* after the last entry: once the directory is open no step makes it fail.
C22_Terminates ==
    /\ [][Returns =>
            /\ ret'.op = "scan_directory" /\ ret'.self = frame.self
            /\ ret'.result.tag = "Err" =>
                   /\ frame.at = "read_dir" /\ frame.i = 0
                   /\ scanners' = scanners
            /\ ret'.result.tag = "Ok" =>
                   /\ frame.at = "for" /\ frame.i = Len(fs) + 1
                   /\ frame.directory \in Listable
       ]_vars
    /\ [][(frame.at = "for" /\ frame'.at # "idle") =>
            /\ frame'.at = "for" /\ frame'.i = frame.i + 1 /\ frame.i <= Len(fs)
       ]_vars
    /\ (frame.at # "idle") ~> (frame.at = "idle")

\* a scan that walked two entries, one of them unreadable, and returned Ok
C22_Witness ==
    /\ frame.at = "idle" /\ ScannedOk
    /\ Len(fs) = 2 /\ ~fs[1].ok /\ fs[2].ok /\ fs[2].mode = "xdir"
    /\ Len(scanners["s"].errors) = 1

====
